---- MODULE Spec2Model ----
(***************************************************************************)
(* A model of the ledger core of go-blockchain: the chain store            *)
(* (chaindb/db.go) over the badger key-value engine, and the transaction   *)
(* model (core/types/transaction.go).                                      *)
(*                                                                         *)
(* Keys and values of the store are byte strings, modelled as sequences of *)
(* numbers.  A failure handed to errutil.HandleErr, and log.Panic, is a Go *)
(* panic: nothing in the repository recovers it, so it ends the process.   *)
(***************************************************************************)
EXTENDS Integers, Sequences, FiniteSets, TLC

(***************************************************************************)
(* Bounds of the model.                                                    *)
(***************************************************************************)
\* how many distinct blocks the callers build
NumBlocks == 3
\* how many goroutines call SaveNewLastBlock concurrently
NumWriters == 2

(***************************************************************************)
(* Byte strings.                                                           *)
(***************************************************************************)
\* the length of a SHA-256 digest: block hashes and transaction IDs
HashSize == 32

\* []byte("lastHashKey")
LastHashKey == <<108, 97, 115, 116, 72, 97, 115, 104, 75, 101, 121>>

\* the i-th block hash: a digest, HashSize bytes long
HashOf(i) == [k \in 1..HashSize |-> i]

\* types.Block, as far as the store is concerned: the Hash it is keyed by and
\* the rest of its fields (Data).  The store takes Hash as the caller gives
\* it: blocks 2k-1 and 2k carry the same Hash and differ in their other fields.
BlockOf(i) == [Hash |-> HashOf((i + 1) \div 2), Data |-> i]

Blocks == {BlockOf(i) : i \in 1..NumBlocks}

\* the hashes the callers ask for
Hashes == {b.Hash : b \in Blocks}

Writers == 1..NumWriters

(***************************************************************************)
(* Errors.                                                                 *)
(***************************************************************************)
Nil == "nil"
ErrKeyNotFound == "badger.ErrKeyNotFound"
\* any failure of a write or a commit the engine reports (ErrTxnTooBig, I/O)
ErrEngine == "badger.ErrEngine"
ErrOpen == "badger.ErrOpen"

\* errutil.HandleErr(err): TRUE iff it panics (terminate on any failure)
HandleErr(err) == err # Nil

(***************************************************************************)
(* dbutil: the serialized form of a block, and its decoding.               *)
(***************************************************************************)
BlockTag == 66

SerializeBlock(b) == <<BlockTag>> \o b.Hash \o <<b.Data>>

\* TRUE iff the bytes are a complete block record
IsBlockRecord(v) == Len(v) = HashSize + 2 /\ v[1] = BlockTag

DeserializeBlock(v) ==
    [Hash |-> SubSeq(v, 2, HashSize + 1), Data |-> v[HashSize + 2]]

(***************************************************************************)
(* The badger engine: a store is a function from the keys present to their *)
(* values; a read-write transaction buffers its writes and they reach the  *)
(* store together at commit, or never.                                     *)
(***************************************************************************)
EmptyStore == [k \in {} |-> <<>>]

\* txn.Get(key): the item, or ErrKeyNotFound
TxnGet(s, key) ==
    IF key \in DOMAIN s
    THEN [err |-> Nil, value |-> s[key]]
    ELSE [err |-> ErrKeyNotFound, value |-> <<>>]

\* txn.Set(key, value) on the writes buffered so far
TxnSet(w, key, value) ==
    [k \in DOMAIN w \cup {key} |-> IF k = key THEN value ELSE w[k]]

\* txn.Commit: every buffered write reaches the store
TxnCommit(s, w) ==
    [k \in DOMAIN s \cup DOMAIN w |-> IF k \in DOMAIN w THEN w[k] ELSE s[k]]

(***************************************************************************)
(* What a call gives its caller: a normal return, or a panic.              *)
(***************************************************************************)
\* kind is "return" or "panic"; no operation of ChainDB has an error result, so
\* no call ends with kind "error".  at: the engine call a panic came from.
Return(op, arg, val) ==
    [op |-> op, kind |-> "return", arg |-> arg, val |-> val, at |-> ""]

Panic(op, arg, err) ==
    [op |-> op, kind |-> "panic", arg |-> arg, val |-> err, at |-> ""]

NoCall == [op |-> "none", kind |-> "none", arg |-> <<>>, val |-> <<>>, at |-> ""]

(***************************************************************************)
(* The read operations of ChainDB, on the committed store a View sees.     *)
(***************************************************************************)
\* HasChain: the closure returns ErrKeyNotFound to View, and HandleErr gets it
HasChainCall(s) ==
    LET g == TxnGet(s, LastHashKey)
        exists == g.err # ErrKeyNotFound
        err == IF g.err = ErrKeyNotFound THEN g.err ELSE Nil
    IN  IF HandleErr(err)
        THEN Panic("HasChain", <<>>, err)
        ELSE Return("HasChain", <<>>, exists)

\* GetLastHash
GetLastHashCall(s) ==
    LET g == TxnGet(s, LastHashKey)
    IN  IF HandleErr(g.err)
        THEN Panic("GetLastHash", <<>>, g.err)
        ELSE Return("GetLastHash", <<>>, g.value)

\* GetBlockWithHash
GetBlockWithHashCall(s, hash) ==
    LET g == TxnGet(s, hash)
    IN  IF HandleErr(g.err)
        THEN Panic("GetBlockWithHash", hash, g.err)
        ELSE IF ~IsBlockRecord(g.value)
        THEN Panic("GetBlockWithHash", hash, "decode")
        ELSE Return("GetBlockWithHash", hash, DeserializeBlock(g.value))

(***************************************************************************)
(* The transaction model.  Go's int is a fixed-width two's complement      *)
(* number; the model keeps the wrap-around at a width of IntBits bits.     *)
(***************************************************************************)
\* the width of int in the model
IntBits == 8

MinInt == -(2 ^ (IntBits - 1))

MaxInt == 2 ^ (IntBits - 1) - 1

\* the int a result of int arithmetic is stored as
Wrap(x) == ((x - MinInt) % (2 ^ IntBits)) + MinInt

\* the amounts the callers use reach from -1 to MaxAmount, and the extremes
MaxAmount == 4

Amounts == (-1 .. MaxAmount) \cup {MinInt, MaxInt}

Addresses == {"A1", "A2"}

\* a utxos map has at most MaxKeys keys
MaxKeys == 2

\* the keys of a utxos map: strings, as sequences of characters.  "zz" is not
\* hexadecimal; "ab" and "AB" decode to the same byte
TxIDKeys == {<<>>, <<"a", "b">>, <<"A", "B">>, <<"z", "z">>}

\* the output indices listed under a key
IndexLists == {<<>>, <<-1>>, <<0>>, <<0, 1>>}

UtxoMaps ==
    UNION {[ks -> IndexLists] : ks \in {k \in SUBSET TxIDKeys : Cardinality(k) <= MaxKeys}}

HexLower == <<"0", "1", "2", "3", "4", "5", "6", "7", "8", "9",
              "a", "b", "c", "d", "e", "f">>

HexUpper == <<"0", "1", "2", "3", "4", "5", "6", "7", "8", "9",
              "A", "B", "C", "D", "E", "F">>

IsHexChar(c) == \E i \in 1..16 : HexLower[i] = c \/ HexUpper[i] = c

HexVal(c) == (CHOOSE i \in 1..16 : HexLower[i] = c \/ HexUpper[i] = c) - 1

\* hex.DecodeString(s): the bytes, or an error for an odd length or a
\* character that is no hexadecimal digit
DecodeString(s) ==
    IF Len(s) % 2 = 1 \/ \E i \in 1..Len(s) : ~IsHexChar(s[i])
    THEN [err |-> "hex.ErrInvalid", bytes |-> <<>>]
    ELSE [err |-> Nil,
          bytes |-> [i \in 1..(Len(s) \div 2) |->
                        16 * HexVal(s[2 * i - 1]) + HexVal(s[2 * i])]]

\* dbutil.Serialize(tx): the encoding of the transaction's fields
Serialize(tx) == <<tx.ID, tx.Inputs, tx.Outputs>>

\* sha256.Sum256, as a function without collisions
Sum256(data) == [sha256 |-> data]

\* setID
setID(tx) == [tx EXCEPT !.ID = Sum256(Serialize(tx))]

\* initTransaction: the ID is nil while it is computed
initTransaction(inputs, outputs) ==
    setID([ID |-> <<>>, Inputs |-> inputs, Outputs |-> outputs])

\* the inputs the inner loop appends for one key of utxos
InputsOfKey(from, txID, utxoIdxs) ==
    [i \in 1..Len(utxoIdxs) |->
        [TxID |-> txID, OutputIndex |-> utxoIdxs[i], Sig |-> from]]

\* the outer loop over utxos, its keys visited in the order range yields
\* them (order: a sequence of the keys); err is the first decoding failure
RECURSIVE NewInputs(_, _, _)
NewInputs(from, utxos, order) ==
    IF order = <<>>
    THEN [err |-> Nil, inputs |-> <<>>]
    ELSE LET d == DecodeString(Head(order))
             rest == NewInputs(from, utxos, Tail(order))
         IN  IF d.err # Nil
             THEN [err |-> d.err, inputs |-> <<>>]
             ELSE IF rest.err # Nil
             THEN rest
             ELSE [err |-> Nil,
                   inputs |-> InputsOfKey(from, d.bytes, utxos[Head(order)])
                                \o rest.inputs]

\* NewOutputs without the change output
NewOutputs_NoChange(from, to, amount, txoSum) ==
    <<[Amount |-> amount, PubKey |-> to]>>

\* the outputs: the payment, and the change when something is left over
NewOutputs(from, to, amount, txoSum) ==
    <<[Amount |-> amount, PubKey |-> to]>>
        \o (IF txoSum > amount
            THEN <<[Amount |-> Wrap(txoSum - amount), PubKey |-> from]>>
            ELSE <<>>)

NoTx == [ID |-> <<>>, Inputs |-> <<>>, Outputs |-> <<>>]

\* what a constructor gives its caller: kind "return" with the transaction,
\* or kind "panic" with the failure and no transaction
TxReturn(op, tx) == [op |-> op, kind |-> "return", err |-> Nil, tx |-> tx]

TxPanic(op, err) == [op |-> op, kind |-> "panic", err |-> err, tx |-> NoTx]

\* CreateTransaction, with the order in which range yields the keys of utxos
CreateTransaction(from, to, amount, txoSum, utxos, order) ==
    IF txoSum < amount
    THEN TxPanic("CreateTransaction", "Error: Not enough funds")
    ELSE LET ins == NewInputs(from, utxos, order)
         IN  IF HandleErr(ins.err)
             THEN TxPanic("CreateTransaction", ins.err)
             ELSE TxReturn("CreateTransaction",
                           initTransaction(ins.inputs,
                                           NewOutputs(from, to, amount, txoSum)))

\* the reward of a coinbase transaction
CoinbaseValue == 100

\* CoinbaseTx whose input refers to output 0
CoinbaseTx_ZeroIndex(to) ==
    LET value == CoinbaseValue
        txin == [TxID |-> <<>>, OutputIndex |-> 0,
                 Sig |-> ToString(value) \o " coins to " \o to]
        txout == [Amount |-> value, PubKey |-> to]
    IN  TxReturn("CoinbaseTx", initTransaction(<<txin>>, <<txout>>))

\* CoinbaseTx
CoinbaseTx(to) ==
    LET value == CoinbaseValue
        txin == [TxID |-> <<>>, OutputIndex |-> -1,
                 Sig |-> ToString(value) \o " coins to " \o to]
        txout == [Amount |-> value, PubKey |-> to]
    IN  TxReturn("CoinbaseTx", initTransaction(<<txin>>, <<txout>>))

\* IsCoinbase
IsCoinbase(tx) ==
    /\ Len(tx.Inputs) = 1
    /\ Len(tx.Inputs[1].TxID) = 0
    /\ tx.Inputs[1].OutputIndex = -1

\* the orders in which range may yield the keys ks
Orders(ks) ==
    {o \in [1..Cardinality(ks) -> ks] : \A i, j \in DOMAIN o : i # j => o[i] # o[j]}

\* the sum of the outputs' amounts, added up as ints
RECURSIVE SumAmounts(_)
SumAmounts(outputs) ==
    IF outputs = <<>>
    THEN 0
    ELSE Wrap(Head(outputs).Amount + SumAmounts(Tail(outputs)))

(***************************************************************************)
(* Addresses.  A byte slice is a sequence over 0..255; an address, the     *)
(* characters of a base58 string, is a sequence of one-character strings.  *)
(***************************************************************************)
\* the key pairs ecdsa.GenerateKey can draw
NumKeys == 3

KeyPairs == 1..NumKeys

ChecksumLen == 4

version == 0

\* the length of a RIPEMD-160 digest, in bytes
Ripemd160Size == 20

\* a number that summarises a byte slice, the digests below are made of it
RECURSIVE Absorb(_, _, _)
Absorb(data, i, acc) ==
    IF i > Len(data)
    THEN acc
    ELSE Absorb(data, i + 1, (acc * 31 + data[i] + 1) % 65521)

\* a digest: a byte slice of fixed length that depends on all of the data
Digest(salt, data, size) ==
    LET m == Absorb(data, 1, 17 + salt)
    IN  [i \in 1..size |-> (m * (2 * i + 1) + i * i) % 256]

\* sha256.Sum256 of a byte slice
Sum256Bytes(data) == Digest(1, data, HashSize)

\* ripemd160.New(), Write, Sum(nil)
Ripemd160Sum(data) == Digest(2, data, Ripemd160Size)

\* the base58 alphabet
B58Alphabet ==
    <<"1", "2", "3", "4", "5", "6", "7", "8", "9",
      "A", "B", "C", "D", "E", "F", "G", "H", "J", "K", "L", "M", "N", "P",
      "Q", "R", "S", "T", "U", "V", "W", "X", "Y", "Z",
      "a", "b", "c", "d", "e", "f", "g", "h", "i", "j", "k", "m", "n", "o",
      "p", "q", "r", "s", "t", "u", "v", "w", "x", "y", "z">>

B58Base == Len(B58Alphabet)

\* the value of a base58 character
B58Value(c) == (CHOOSE i \in 1..B58Base : B58Alphabet[i] = c) - 1

\* a byte slice without its leading zero bytes
RECURSIVE StripZeros(_)
StripZeros(bs) ==
    IF bs # <<>> /\ bs[1] = 0 THEN StripZeros(Tail(bs)) ELSE bs

\* the number of leading elements of s that are x
RECURSIVE Leading(_, _)
Leading(s, x) ==
    IF s # <<>> /\ s[1] = x THEN 1 + Leading(Tail(s), x) ELSE 0

\* the big-endian number bs divided by the base: quotient and remainder
RECURSIVE DivBase(_, _, _, _)
DivBase(bs, i, rem, q) ==
    IF i > Len(bs)
    THEN [q |-> q, r |-> rem]
    ELSE LET cur == rem * 256 + bs[i]
         IN  DivBase(bs, i + 1, cur % B58Base, Append(q, cur \div B58Base))

\* the base58 digits of the big-endian number n, most significant first
RECURSIVE ToDigits(_, _)
ToDigits(n, acc) ==
    IF n = <<>>
    THEN acc
    ELSE LET d == DivBase(n, 1, 0, <<>>)
         IN  ToDigits(StripZeros(d.q), <<B58Alphabet[d.r + 1]>> \o acc)

\* walletutil.Base58Encode: a leading zero byte is written as "1"
Base58Encode(input) ==
    [i \in 1..Leading(input, 0) |-> "1"] \o ToDigits(StripZeros(input), <<>>)

\* the big-endian number bs times the base plus carry
RECURSIVE MulBase(_, _, _, _)
MulBase(bs, i, carry, out) ==
    IF i = 0
    THEN IF carry = 0 THEN out ELSE <<carry>> \o out
    ELSE LET cur == bs[i] * B58Base + carry
         IN  MulBase(bs, i - 1, cur \div 256, <<cur % 256>> \o out)

\* the big-endian number the base58 digits s[i..] add to acc
RECURSIVE FromDigits(_, _, _)
FromDigits(s, i, acc) ==
    IF i > Len(s)
    THEN acc
    ELSE FromDigits(s, i + 1, MulBase(acc, Len(acc), B58Value(s[i]), <<>>))

\* walletutil.Base58Decode: a leading "1" is read as a zero byte
Base58Decode(input) ==
    [i \in 1..Leading(input, "1") |-> 0] \o FromDigits(input, 1, <<>>)

\* createKeyPair: the k-th key pair; the public key is X.Bytes() ++ Y.Bytes()
createKeyPair(k) ==
    LET X == <<k>>
        Y == <<(k * 37) % 256>>
    IN  [privKey |-> k, pubKey |-> X \o Y]

\* InitWallet
InitWallet(k) ==
    LET pair == createKeyPair(k)
    IN  [PrivateKey |-> pair.privKey, PublicKey |-> pair.pubKey]

\* HashPubKey
HashPubKey(pubKey) == Ripemd160Sum(Sum256Bytes(pubKey))

\* checksum
checksum(payload) ==
    SubSeq(Sum256Bytes(Sum256Bytes(payload)), 1, ChecksumLen)

\* GetAddress with the checksum taken over the hash without its version
GetAddress_BareChecksum(w) ==
    LET pubKeyHash == HashPubKey(w.PublicKey)
        versionedHash == <<version>> \o pubKeyHash
        fullHash == versionedHash \o checksum(pubKeyHash)
    IN  Base58Encode(fullHash)

\* GetAddress
GetAddress(w) ==
    LET pubKeyHash == HashPubKey(w.PublicKey)
        versionedHash == <<version>> \o pubKeyHash
        fullHash == versionedHash \o checksum(versionedHash)
    IN  Base58Encode(fullHash)

\* what a call on addresses does: return a value, or panic
AddrReturn(val) == [kind |-> "return", val |-> val]
AddrPanic(err) == [kind |-> "panic", val |-> err]

ErrSliceBounds == "slice bounds out of range"

\* ValidateAddress: decodedAddress[len(decodedAddress)-ChecksumLen:] panics
\* when the decoded address is shorter than a checksum
ValidateAddress(address) ==
    LET decodedAddress == Base58Decode(address)
        n == Len(decodedAddress)
    IN  IF n < ChecksumLen
        THEN AddrPanic(ErrSliceBounds)
        ELSE LET addressChecksum == SubSeq(decodedAddress, n - ChecksumLen + 1, n)
                 targetChecksum == checksum(SubSeq(decodedAddress, 1, n - ChecksumLen))
             IN  AddrReturn(addressChecksum = targetChecksum)

\* the address of each key pair, and the addresses with a wrong last character
AddressOf == [k \in KeyPairs |-> GetAddress(InitWallet(k))]

Corrupt(a) == [a EXCEPT ![Len(a)] = IF @ = "2" THEN "3" ELSE "2"]

\* the strings the operations on addresses are called with
AddressInputs ==
    {AddressOf[k] : k \in KeyPairs} \cup {Corrupt(AddressOf[k]) : k \in KeyPairs}
       \cup {<<>>, <<"1">>, <<"z">>, <<"1", "1", "1">>, <<"1", "1", "1", "1">>,
             <<"2", "g">>, <<"z", "z", "z", "z", "z", "z">>}

\* ValidateAddress on each of them
Validated == [a \in AddressInputs |-> ValidateAddress(a)]

(***************************************************************************)
(* State.                                                                  *)
(***************************************************************************)
VARIABLES
    running,   \* the process is alive
    handle,    \* "unopened" | "open": the ChainDB's badger handle
    store,     \* the committed contents of the store directory
    pc,        \* pc[w]: where writer w is in SaveNewLastBlock
    blk,       \* blk[w]: the block writer w is saving
    txn,       \* txn[w]: the writes buffered in writer w's transaction
    ret,       \* what the last completed call of ChainDB gave its caller
    call,      \* the arguments of the transaction constructors
    res,       \* what the last constructor call gave its caller
    ws,        \* the Wallets struct the process holds
    file,      \* the contents of walletFile
    wret,      \* what the last completed call on wallets gave its caller
    gor        \* gor[g]: goroutine g's call on the shared Wallets

dbvars == <<running, handle, store, pc, blk, txn, ret>>

txvars == <<call, res>>

walletvars == <<ws, file, wret, gor>>

chainvars == <<handle, store, pc, blk, txn, ret, call, res>>

vars == <<running, handle, store, pc, blk, txn, ret, call, res, ws, file, wret, gor>>

NoArgs == [from |-> "", to |-> "", amount |-> 0, txoSum |-> 0,
           utxos |-> [k \in {} |-> <<>>]]

NoRes == [op |-> "none", kind |-> "none", err |-> Nil, tx |-> NoTx]

NoBlock == [Hash |-> <<>>, Data |-> 0]

Idle == [w \in Writers |-> "idle"]

NoBlocks == [w \in Writers |-> NoBlock]

NoTxns == [w \in Writers |-> EmptyStore]

\* the goroutines that call into one Wallets struct at once
NumGoroutines == 2

Goroutines == 1..NumGoroutines

\* map[string]*Wallet after make
EmptyWallets == [a \in {} |-> 0]

\* no Wallets struct yet
NoWallets == [made |-> FALSE, Wallets |-> EmptyWallets]

\* walletFile does not exist
NoFile == [exists |-> FALSE, complete |-> FALSE, entries |-> <<>>]

NoWalletCall ==
    [op |-> "none", kind |-> "none", arg |-> <<>>, val |-> <<>>, err |-> Nil]

NoGoroutine ==
    [pc |-> "idle", op |-> "none", key |-> 0, address |-> <<>>,
     seen |-> EmptyWallets]

NoGoroutines == [g \in Goroutines |-> NoGoroutine]

\* no wallet was touched
WalletsUntouched ==
    /\ ws = NoWallets
    /\ file = NoFile
    /\ wret = NoWalletCall
    /\ gor = NoGoroutines

Init ==
    /\ running = TRUE
    /\ handle = "unopened"
    /\ store = EmptyStore
    /\ pc = Idle
    /\ blk = NoBlocks
    /\ txn = NoTxns
    /\ ret = NoCall
    /\ call = NoArgs
    /\ res = NoRes
    /\ WalletsUntouched

\* a panic nobody recovers: the process ends, its transactions are discarded
\* and its handle is gone; the committed store stays on disk
Crash(r) ==
    /\ running' = FALSE
    /\ handle' = "unopened"
    /\ pc' = Idle
    /\ blk' = NoBlocks
    /\ txn' = NoTxns
    /\ ret' = r
    /\ UNCHANGED store

\* the program is started again
Start ==
    /\ ~running
    /\ running' = TRUE
    /\ ret' = NoCall
    /\ UNCHANGED <<handle, store, pc, blk, txn>>

\* InitDB: badger.Open, fatal when it fails
InitDB ==
    /\ running /\ handle = "unopened"
    /\ \E err \in {Nil, ErrOpen} :
          IF HandleErr(err)
          THEN Crash(Panic("InitDB", <<>>, err))
          ELSE /\ handle' = "open"
               /\ ret' = Return("InitDB", <<>>, <<>>)
               /\ UNCHANGED <<running, store, pc, blk, txn>>

\* CloseDB, called when no operation is in flight
CloseDB ==
    /\ running /\ handle = "open"
    /\ \A w \in Writers : pc[w] = "idle"
    /\ handle' = "unopened"
    /\ ret' = Return("CloseDB", <<>>, <<>>)
    /\ UNCHANGED <<running, store, pc, blk, txn>>

\* a read operation completes with result r
Read(r) ==
    IF r.kind = "panic"
    THEN Crash(r)
    ELSE /\ ret' = r
         /\ UNCHANGED <<running, handle, store, pc, blk, txn>>

HasChain ==
    /\ running /\ handle = "open"
    /\ Read(HasChainCall(store))

GetLastHash ==
    /\ running /\ handle = "open"
    /\ Read(GetLastHashCall(store))

GetBlockWithHash ==
    /\ running /\ handle = "open"
    /\ \E hash \in Hashes : Read(GetBlockWithHashCall(store, hash))

(***************************************************************************)
(* SaveNewLastBlock, one engine call at a time.                            *)
(***************************************************************************)
\* SaveNewLastBlock of writer w panics with err at its current engine call
SavePanic(w, err) ==
    [Panic("SaveNewLastBlock", blk[w], err) EXCEPT !.at = pc[w]]

\* db.database.Update begins a read-write transaction
SaveBegin(w) ==
    /\ running /\ handle = "open"
    /\ pc[w] = "idle"
    /\ \E b \in Blocks : blk' = [blk EXCEPT ![w] = b]
    /\ pc' = [pc EXCEPT ![w] = "setBlock"]
    /\ txn' = [txn EXCEPT ![w] = EmptyStore]
    /\ UNCHANGED <<running, handle, store, ret>>

\* SaveSetBlock with the block written straight to the store, outside the
\* transaction
SaveSetBlock_Unbuffered(w) ==
    /\ running /\ pc[w] = "setBlock"
    /\ \E err \in {Nil, ErrEngine} :
          IF HandleErr(err)
          THEN Crash(SavePanic(w, err))
          ELSE /\ store' = TxnSet(store, blk[w].Hash, SerializeBlock(blk[w]))
               /\ pc' = [pc EXCEPT ![w] = "setTip"]
               /\ UNCHANGED <<running, handle, txn, blk, ret>>

\* txn.Set(newBlock.Hash, SerializeBlock(newBlock)); HandleErr(err)
SaveSetBlock(w) ==
    /\ running /\ pc[w] = "setBlock"
    /\ \E err \in {Nil, ErrEngine} :
          IF HandleErr(err)
          THEN Crash(SavePanic(w, err))
          ELSE /\ txn' = [txn EXCEPT ![w] =
                            TxnSet(@, blk[w].Hash, SerializeBlock(blk[w]))]
               /\ pc' = [pc EXCEPT ![w] = "setTip"]
               /\ UNCHANGED <<running, handle, store, blk, ret>>

\* SaveSetTip with the tip written straight to the store, outside the
\* transaction
SaveSetTip_Unbuffered(w) ==
    /\ running /\ pc[w] = "setTip"
    /\ \E err \in {Nil, ErrEngine} :
          IF HandleErr(err)
          THEN Crash(SavePanic(w, err))
          ELSE /\ store' = TxnSet(store, LastHashKey, blk[w].Hash)
               /\ pc' = [pc EXCEPT ![w] = "commit"]
               /\ UNCHANGED <<running, handle, txn, blk, ret>>

\* SaveSetTip that leaves the tip as it was
SaveSetTip_Forgotten(w) ==
    /\ running /\ pc[w] = "setTip"
    /\ \E err \in {Nil, ErrEngine} :
          IF HandleErr(err)
          THEN Crash(SavePanic(w, err))
          ELSE /\ pc' = [pc EXCEPT ![w] = "commit"]
               /\ UNCHANGED <<running, handle, store, txn, blk, ret>>

\* err = txn.Set(LastHashKey, newBlock.Hash); return err: Update discards the
\* transaction on an error and hands it to HandleErr
SaveSetTip(w) ==
    /\ running /\ pc[w] = "setTip"
    /\ \E err \in {Nil, ErrEngine} :
          IF HandleErr(err)
          THEN Crash(SavePanic(w, err))
          ELSE /\ txn' = [txn EXCEPT ![w] = TxnSet(@, LastHashKey, blk[w].Hash)]
               /\ pc' = [pc EXCEPT ![w] = "commit"]
               /\ UNCHANGED <<running, handle, store, blk, ret>>

\* the closure returned nil: Update commits, and HandleErr gets Commit's error
SaveCommit(w) ==
    /\ running /\ pc[w] = "commit"
    /\ \E err \in {Nil, ErrEngine} :
          IF HandleErr(err)
          THEN Crash(SavePanic(w, err))
          ELSE /\ store' = TxnCommit(store, txn[w])
               /\ pc' = [pc EXCEPT ![w] = "idle"]
               /\ blk' = [blk EXCEPT ![w] = NoBlock]
               /\ txn' = [txn EXCEPT ![w] = EmptyStore]
               /\ ret' = Return("SaveNewLastBlock", blk[w], <<>>)
               /\ UNCHANGED <<running, handle>>

Next ==
    \/ Start /\ UNCHANGED <<txvars, walletvars>>
    \/ InitDB /\ UNCHANGED <<txvars, walletvars>>
    \/ CloseDB /\ UNCHANGED <<txvars, walletvars>>
    \/ HasChain /\ UNCHANGED <<txvars, walletvars>>
    \/ GetLastHash /\ UNCHANGED <<txvars, walletvars>>
    \/ GetBlockWithHash /\ UNCHANGED <<txvars, walletvars>>
    \/ \E w \in Writers : SaveBegin(w) /\ UNCHANGED <<txvars, walletvars>>
    \/ \E w \in Writers : SaveSetBlock(w) /\ UNCHANGED <<txvars, walletvars>>
    \/ \E w \in Writers : SaveSetTip(w) /\ UNCHANGED <<txvars, walletvars>>
    \/ \E w \in Writers : SaveCommit(w) /\ UNCHANGED <<txvars, walletvars>>

\* the chain store and its callers
Spec == Init /\ [][Next]_vars

(***************************************************************************)
(* Properties of the chain store, checked under Spec.                      *)
(***************************************************************************)
\* the block keys of a store
BlockKeys(s) == DOMAIN s \ {LastHashKey}

\* the store after a complete append of block b: both writes
Appended(s, b) ==
    TxnSet(TxnSet(s, b.Hash, SerializeBlock(b)), LastHashKey, b.Hash)

\* the step in which writer w's SaveNewLastBlock returns
SaveReturns(w) == pc[w] = "commit" /\ pc'[w] = "idle" /\ running'

\* call result r is a normal return of value v
Returns(r, v) == r.kind = "return" /\ r.val = v

\* C1: when SaveNewLastBlock(B) returns, on an empty or a non-empty store,
\* HasChain is true, GetLastHash gives B.Hash and GetBlockWithHash(B.Hash)
\* gives a block equal to B.
C1_AppendThenRead ==
    [][\A w \in Writers :
          SaveReturns(w) =>
             /\ Returns(HasChainCall(store'), TRUE)
             /\ Returns(GetLastHashCall(store'), blk[w].Hash)
             /\ Returns(GetBlockWithHashCall(store', blk[w].Hash), blk[w])]_vars

\* a second block has been appended and is the tip
C1_Witness ==
    /\ ret.op = "SaveNewLastBlock" /\ ret.kind = "return"
    /\ Cardinality(BlockKeys(store)) = 2
    /\ Returns(GetLastHashCall(store), ret.arg.Hash)

\* C2: in every state, writers in flight or not, a tip key that exists holds
\* a hash that is a block key of the store, under which a complete record of
\* a block of that hash is stored.
C2_TipNamesStoredBlock ==
    LastHashKey \in DOMAIN store =>
       /\ store[LastHashKey] \in BlockKeys(store)
       /\ IsBlockRecord(store[store[LastHashKey]])
       /\ DeserializeBlock(store[store[LastHashKey]]).Hash = store[LastHashKey]

\* the tip exists while a writer is about to commit a block not yet stored
C2_Witness ==
    /\ LastHashKey \in DOMAIN store
    /\ \E w \in Writers : pc[w] = "commit" /\ blk[w].Hash \notin DOMAIN store

\* C3: block storage is append-only: a block record, once stored, is still
\* there, unchanged, after every later step (an append of a block of the same
\* hash included).
C3_AppendOnly ==
    [][\A h \in BlockKeys(store) : h \in DOMAIN store' /\ store'[h] = store[h]]_vars

\* C4: on a store no block was appended to, HasChain returns false as a
\* normal value, and GetLastHash ends with a NotFound error returned to the
\* caller, the process alive.
C4_FreshStore ==
    store = EmptyStore =>
       /\ ret.op = "HasChain" => ret.kind = "return" /\ ret.val = FALSE
       /\ ret.op = "GetLastHash" =>
             ret.kind = "error" /\ ret.val = ErrKeyNotFound /\ running

\* C9: GetBlockWithHash of a hash that is not stored ends with a NotFound
\* error returned to the caller: no panic that ends the process, no default
\* block.
C9_GetBlockNotFound ==
    (ret.op = "GetBlockWithHash" /\ ret.arg \notin DOMAIN store) =>
       ret.kind = "error" /\ ret.val = ErrKeyNotFound /\ running

\* C10: a SaveNewLastBlock that fails at one of its two writes commits
\* neither: the store changes in no step but the one in which a
\* SaveNewLastBlock returns, and then by both of its writes.
C10_NoPartialAppend ==
    [][/\ \A w \in Writers :
             (pc[w] \in {"setBlock", "setTip"} /\ ~running') => store' = store
       /\ store' # store =>
             \E w \in Writers : SaveReturns(w) /\ store' = Appended(store, blk[w])]_vars

\* a SaveNewLastBlock has failed at its second write and left a non-empty
\* store without its block
C10_Witness ==
    /\ ret.op = "SaveNewLastBlock" /\ ret.kind = "panic" /\ ret.at = "setTip"
    /\ LastHashKey \in DOMAIN store
    /\ ret.arg.Hash \notin DOMAIN store

\* C18: two SaveNewLastBlock calls of blocks B1 and B2, interleaved in any
\* way, leave the store as some serial order does: when the second of them
\* returns (B1's was the call completed before it), both blocks are stored
\* intact and the tip is the hash of the block committed last.
C18_WritersSerialized ==
    [][\A w \in Writers :
          (SaveReturns(w) /\ ret.op = "SaveNewLastBlock" /\ ret.kind = "return") =>
             /\ Returns(GetBlockWithHashCall(store', ret.arg.Hash), ret.arg)
             /\ Returns(GetBlockWithHashCall(store', blk[w].Hash), blk[w])
             /\ Returns(GetLastHashCall(store'), blk[w].Hash)]_vars

(***************************************************************************)
(* The transaction constructors, applied to arguments drawn at the start.  *)
(***************************************************************************)
TxInit ==
    /\ running = TRUE
    /\ handle = "unopened"
    /\ store = EmptyStore
    /\ pc = Idle
    /\ blk = NoBlocks
    /\ txn = NoTxns
    /\ ret = NoCall
    /\ call \in [from : Addresses, to : Addresses, amount : Amounts,
                 txoSum : Amounts, utxos : UtxoMaps]
    /\ res = NoRes
    /\ WalletsUntouched

\* a constructor call completes with result r; a panic ends the process
TxDone(r) ==
    /\ res' = r
    /\ running' = (r.kind # "panic")
    /\ UNCHANGED <<handle, store, pc, blk, txn, ret, call>>
    /\ UNCHANGED walletvars

DoCreateTransaction ==
    /\ running
    /\ \E order \in Orders(DOMAIN call.utxos) :
          TxDone(CreateTransaction(call.from, call.to, call.amount,
                                   call.txoSum, call.utxos, order))

DoCoinbaseTx ==
    /\ running
    /\ TxDone(CoinbaseTx(call.to))

TxNext ==
    \/ DoCreateTransaction
    \/ DoCoinbaseTx

TxSpec == TxInit /\ [][TxNext]_vars

(***************************************************************************)
(* Properties of the transaction constructors, checked under TxSpec.       *)
(***************************************************************************)
\* CreateTransaction has returned a transaction for the arguments in call
Created == res.op = "CreateTransaction" /\ res.kind = "return"

\* the outputs that pay address to exactly amount
PaysTo(outputs, to, amount) ==
    {i \in DOMAIN outputs : outputs[i].PubKey = to /\ outputs[i].Amount = amount}

C6_InsufficientFunds ==
    (res.op = "CreateTransaction" /\ call.txoSum < call.amount) =>
       /\ res.tx = NoTx
       /\ res.kind = "error" /\ res.err = "InsufficientFunds"
       /\ running

\* C7: IsCoinbase is true of every transaction CoinbaseTx builds, and false
\* of every transaction CreateTransaction builds from a non-empty utxos map,
\* whatever its keys and indices.
C7_IsCoinbase ==
    /\ (res.op = "CoinbaseTx" /\ res.kind = "return") => IsCoinbase(res.tx)
    /\ (Created /\ DOMAIN call.utxos # {}) => ~IsCoinbase(res.tx)

\* C8: a transaction CoinbaseTx(to) returns has exactly one input, of empty
\* TxID and OutputIndex -1, and exactly one output, of 100 units to to.
C8_CoinbaseShape ==
    res.op = "CoinbaseTx" =>
       /\ res.kind = "return"
       /\ Len(res.tx.Inputs) = 1
       /\ res.tx.Inputs[1].TxID = <<>>
       /\ res.tx.Inputs[1].OutputIndex = -1
       /\ Len(res.tx.Outputs) = 1
       /\ res.tx.Outputs[1] = [Amount |-> 100, PubKey |-> call.to]

\* CoinbaseTx("A2") has returned
C8_Witness ==
    /\ res.op = "CoinbaseTx" /\ res.kind = "return"
    /\ call.to = "A2"
    /\ res.tx.Outputs[1].PubKey = "A2"

\* the (txID, index) pairs a utxos map lists, its keys decoded
Pairs(utxos) ==
    UNION {{<<DecodeString(k).bytes, utxos[k][i]>> : i \in 1..Len(utxos[k])} :
              k \in DOMAIN utxos}

\* the (txID, index) pair an input refers to
Referenced(input) == <<input.TxID, input.OutputIndex>>

\* C16: for txoSum >= amount the outputs are exactly [{amount, to}] when
\* txoSum = amount and exactly [{amount, to}, {txoSum - amount, from}] when
\* txoSum > amount, and no change output has a negative or zero amount.
C16_OutputShape ==
    (Created /\ call.txoSum >= call.amount) =>
       /\ call.txoSum = call.amount =>
             res.tx.Outputs = <<[Amount |-> call.amount, PubKey |-> call.to]>>
       /\ call.txoSum > call.amount =>
             res.tx.Outputs =
                <<[Amount |-> call.amount, PubKey |-> call.to],
                  [Amount |-> call.txoSum - call.amount, PubKey |-> call.from]>>
       /\ \A i \in 2..Len(res.tx.Outputs) : res.tx.Outputs[i].Amount > 0

\* C17: the inputs of a transaction CreateTransaction returns match the
\* (txID, index) pairs of utxos one to one: every pair has exactly one input
\* that refers to it, every input refers to a pair of utxos, and every
\* input's Sig is from.
C17_InputsMatchSpend ==
    Created =>
       /\ \A p \in Pairs(call.utxos) :
             Cardinality({i \in DOMAIN res.tx.Inputs :
                             Referenced(res.tx.Inputs[i]) = p}) = 1
       /\ \A i \in DOMAIN res.tx.Inputs :
             /\ Referenced(res.tx.Inputs[i]) \in Pairs(call.utxos)
             /\ res.tx.Inputs[i].Sig = call.from

\* C20: CreateTransaction is deterministic: a second call with the same
\* arguments returns the same sequence of inputs and the same ID.
C20_Deterministic ==
    [][(Created /\ res'.op = "CreateTransaction" /\ res'.kind = "return"
           /\ call' = call) =>
          /\ res'.tx.Inputs = res.tx.Inputs
          /\ res'.tx.ID = res.tx.ID]_vars

(***************************************************************************)
(* The wallet collection and its snapshot file, one caller at a time.      *)
(***************************************************************************)
ErrNotExist == "stat ./tmp/wallets.dat: no such file or directory"
ErrRead == "read failed"
ErrDecode == "unexpected EOF"
ErrEncode == "gob: encode failed"
ErrWrite == "write failed"
ErrRand == "rand.Reader failed"
ErrNilDeref == "invalid memory address or nil pointer dereference"

WalletReturn(op, arg, val, err) ==
    [op |-> op, kind |-> "return", arg |-> arg, val |-> val, err |-> err]

WalletPanic(op, arg, err) ==
    [op |-> op, kind |-> "panic", arg |-> arg, val |-> <<>>, err |-> err]

\* encoder.Encode(ws): the entries of the map, in the order the map gives them
GobEncode(wallets, order) ==
    [i \in 1..Len(order) |-> [address |-> order[i], wallet |-> wallets[order[i]]]]

\* decoder.Decode(&wallets): the map the entries make
GobDecode(entries) ==
    [a \in {entries[i].address : i \in DOMAIN entries} |->
        (entries[CHOOSE i \in DOMAIN entries : entries[i].address = a]).wallet]

\* a file whose write failed after it was opened
Truncated == [exists |-> TRUE, complete |-> FALSE, entries |-> <<>>]

\* WriteFile that leaves a file that exists as it is
WriteFile_KeepOld(old, data) ==
    IF old.exists
    THEN old
    ELSE [exists |-> TRUE, complete |-> TRUE, entries |-> data]

\* ioutil.WriteFile(walletFile, data, 0644): creates or truncates, then writes
WriteFile(old, data) == [exists |-> TRUE, complete |-> TRUE, entries |-> data]

\* LoadFromFile on a Wallets struct whose map is wallets
LoadFromFile(wallets, f, readErr) ==
    IF ~f.exists
    THEN [kind |-> "return", err |-> ErrNotExist, Wallets |-> wallets]
    ELSE IF HandleErr(readErr)
    THEN [kind |-> "panic", err |-> readErr, Wallets |-> wallets]
    ELSE IF ~f.complete
    THEN [kind |-> "panic", err |-> ErrDecode, Wallets |-> wallets]
    ELSE [kind |-> "return", err |-> Nil, Wallets |-> GobDecode(f.entries)]

\* a panic nobody recovers ends the process; the file stays on disk
WalletCrash(r) ==
    /\ running' = FALSE
    /\ ws' = NoWallets
    /\ wret' = r

\* the program is started again
WalletStart ==
    /\ ~running
    /\ running' = TRUE
    /\ ws' = NoWallets
    /\ wret' = NoWalletCall
    /\ UNCHANGED file

InitWallets ==
    /\ running
    /\ \E readErr \in {Nil, ErrRead} :
          LET r == LoadFromFile(EmptyWallets, file, readErr)
          IN  IF r.kind = "panic"
              THEN WalletCrash(WalletPanic("InitWallets", <<>>, r.err))
              ELSE /\ ws' = [made |-> TRUE, Wallets |-> r.Wallets]
                   /\ wret' = WalletReturn("InitWallets", <<>>, r.Wallets, r.err)
                   /\ UNCHANGED running
    /\ UNCHANGED file

CreateWallet ==
    /\ running
    /\ ws.made
    /\ \/ WalletCrash(WalletPanic("CreateWallet", <<>>, ErrRand))
       \/ \E k \in KeyPairs :
             LET wallet == InitWallet(k)
                 address == AddressOf[k]
             IN  /\ ws' = [ws EXCEPT !.Wallets =
                              [a \in DOMAIN @ \cup {address} |->
                                  IF a = address THEN wallet ELSE @[a]]]
                 /\ wret' = WalletReturn("CreateWallet", <<>>, address, Nil)
                 /\ UNCHANGED running
    /\ UNCHANGED file

GetAddresses ==
    /\ running
    /\ ws.made
    /\ \E order \in Orders(DOMAIN ws.Wallets) :
          wret' = WalletReturn("GetAddresses", <<>>, order, Nil)
    /\ UNCHANGED <<running, ws, file>>

GetWallet ==
    /\ running
    /\ ws.made
    /\ \E address \in AddressInputs :
          IF address \in DOMAIN ws.Wallets
          THEN /\ wret' = WalletReturn("GetWallet", address, ws.Wallets[address], Nil)
               /\ UNCHANGED <<running, ws>>
          ELSE WalletCrash(WalletPanic("GetWallet", address, ErrNilDeref))
    /\ UNCHANGED file

SaveToFile ==
    /\ running
    /\ ws.made
    /\ \E order \in Orders(DOMAIN ws.Wallets) :
       \E encErr \in {Nil, ErrEncode}, writeErr \in {Nil, ErrWrite} :
          IF HandleErr(encErr)
          THEN /\ WalletCrash(WalletPanic("SaveToFile", <<>>, encErr))
               /\ UNCHANGED file
          ELSE IF HandleErr(writeErr)
          THEN /\ WalletCrash(WalletPanic("SaveToFile", <<>>, writeErr))
               /\ file' \in {file, Truncated}
          ELSE /\ file' = WriteFile(file, GobEncode(ws.Wallets, order))
               /\ wret' = WalletReturn("SaveToFile", <<>>, <<>>, Nil)
               /\ UNCHANGED <<running, ws>>

DoValidateAddress ==
    /\ running
    /\ \E address \in AddressInputs :
          LET r == Validated[address]
          IN  IF r.kind = "panic"
              THEN WalletCrash(WalletPanic("ValidateAddress", address, r.val))
              ELSE /\ wret' = WalletReturn("ValidateAddress", address, r.val, Nil)
                   /\ UNCHANGED <<running, ws>>
    /\ UNCHANGED file

WalletInit ==
    /\ running = TRUE
    /\ handle = "unopened"
    /\ store = EmptyStore
    /\ pc = Idle
    /\ blk = NoBlocks
    /\ txn = NoTxns
    /\ ret = NoCall
    /\ call = NoArgs
    /\ res = NoRes
    /\ WalletsUntouched

WalletNext ==
    \/ WalletStart /\ UNCHANGED <<chainvars, gor>>
    \/ InitWallets /\ UNCHANGED <<chainvars, gor>>
    \/ CreateWallet /\ UNCHANGED <<chainvars, gor>>
    \/ GetAddresses /\ UNCHANGED <<chainvars, gor>>
    \/ GetWallet /\ UNCHANGED <<chainvars, gor>>
    \/ SaveToFile /\ UNCHANGED <<chainvars, gor>>
    \/ DoValidateAddress /\ UNCHANGED <<chainvars, gor>>

\* the wallets of one process and their file
WalletSpec == WalletInit /\ [][WalletNext]_vars

(***************************************************************************)
(* What is claimed of the wallet collection and of addresses.              *)
(***************************************************************************)
ErrNotFound == "NotFound"

\* the snapshot in file f holds the wallets of collection w, address by address
SameWallets(f, w) ==
    /\ f.exists
    /\ f.complete
    /\ {f.entries[i] : i \in DOMAIN f.entries} =
          {[address |-> a, wallet |-> w.Wallets[a]] : a \in DOMAIN w.Wallets}

\* C11: GetWallet(address) on a collection without an entry for address
\* returns a NotFound error to its caller (no zero Wallet, no panic) and
\* leaves the collection as it was.
C11_GetMissingNotFound ==
    [][(wret'.op = "GetWallet" /\ wret'.arg \notin DOMAIN ws.Wallets) =>
          /\ wret'.kind = "return"
          /\ wret'.err = ErrNotFound
          /\ ws' = ws]_vars

\* C12: InitWallets without a snapshot file returns an empty collection and
\* no error; with a file it returns to its caller, with an error when the
\* file cannot be read or decoded.
C12_InitWithoutSnapshot ==
    wret.op = "InitWallets" =>
       /\ wret.kind = "return"
       /\ ~file.exists => (wret.err = Nil /\ DOMAIN wret.val = {})
       /\ (file.exists /\ ~file.complete) => wret.err # Nil

\* C13: ValidateAddress never panics, and it returns false for every address
\* whose decoded length is less than ChecksumLen, the empty address included.
C13_ShortAddressInvalid ==
    wret.op = "ValidateAddress" =>
       /\ wret.kind = "return"
       /\ Len(Base58Decode(wret.arg)) < ChecksumLen => wret.val = FALSE

\* C14: a SaveToFile that returns leaves a snapshot of exactly the wallets of
\* the collection, whatever the file held before; no other call changes the
\* file; and an InitWallets that loads the file returns exactly the wallets
\* of the snapshot, so the wallets created after the last SaveToFile are absent.
C14_PersistInitRoundTrip ==
    [][/\ (wret'.op = "SaveToFile" /\ wret'.kind = "return") =>
             SameWallets(file', ws)
       /\ wret'.op # "SaveToFile" => file' = file
       /\ (wret'.op = "InitWallets" /\ wret'.kind = "return" /\ file.exists) =>
             /\ wret'.err = Nil
             /\ SameWallets(file, ws')
             /\ wret'.val = ws'.Wallets]_vars

\* InitWallets loaded a snapshot that SaveToFile wrote of two wallets
C14_Witness ==
    /\ wret.op = "InitWallets"
    /\ wret.kind = "return"
    /\ wret.err = Nil
    /\ Cardinality(DOMAIN ws.Wallets) = 2
    /\ SameWallets(file, ws)

\* C15: ValidateAddress accepts the address GetAddress derives from every
\* key pair, and it accepts the address CreateWallet has just returned.
C15_OwnAddressValid ==
    [][(/\ wret'.op = "ValidateAddress"
        /\ \/ wret'.arg \in {AddressOf[k] : k \in KeyPairs}
           \/ /\ wret.op = "CreateWallet"
              /\ wret.kind = "return"
              /\ wret'.arg = wret.val) =>
          /\ wret'.kind = "return"
          /\ wret'.val = TRUE]_vars

\* ValidateAddress accepted an address that CreateWallet put in the collection
C15_Witness ==
    /\ wret.op = "ValidateAddress"
    /\ wret.kind = "return"
    /\ wret.arg \in DOMAIN ws.Wallets
    /\ ws.Wallets[wret.arg].PublicKey = createKeyPair(NumKeys).pubKey
    /\ wret.val = TRUE

(***************************************************************************)
(* Goroutines that call CreateWallet and SaveToFile on one Wallets struct. *)
(* Nothing in wallets.go locks: a map that is read or written while        *)
(* another goroutine writes it is a data race, whose outcomes are a fatal  *)
(* error of the runtime, a lost write, or no harm.                         *)
(***************************************************************************)
ErrMapWrites == "fatal error: concurrent map writes"
ErrMapIteration == "fatal error: concurrent map iteration and map write"

\* the goroutines other than g that are inside an assignment to the map
Writing(g) == {h \in Goroutines \ {g} : gor[h].pc = "writing"}

\* the runtime detects the race and ends the process
Throw(g, op, err) ==
    /\ running' = FALSE
    /\ ws' = NoWallets
    /\ gor' = NoGoroutines
    /\ wret' = [op |-> op, kind |-> "fatal", arg |-> g, val |-> <<>>, err |-> err]
    /\ UNCHANGED file

\* CreateWallet, lines 40-41: the wallet and its address, local to g
GoInitWallet(g) ==
    /\ running
    /\ gor[g].pc = "idle"
    /\ \E k \in KeyPairs :
          gor' = [gor EXCEPT ![g] =
                     [pc |-> "made", op |-> "CreateWallet", key |-> k,
                      address |-> AddressOf[k], seen |-> EmptyWallets]]
    /\ UNCHANGED <<running, ws, file, wret>>

\* CreateWallet, line 43: the assignment to the map begins
GoAssignBegin(g) ==
    /\ running
    /\ gor[g].pc = "made"
    /\ \/ /\ gor' = [gor EXCEPT ![g].pc = "writing", ![g].seen = ws.Wallets]
          /\ UNCHANGED <<running, ws, file, wret>>
       \/ /\ Writing(g) # {}
          /\ Throw(g, "CreateWallet", ErrMapWrites)

\* CreateWallet, lines 43-45: the assignment ends and the address is returned;
\* what another goroutine wrote since it began may be lost
GoAssignEnd(g) ==
    /\ running
    /\ gor[g].pc = "writing"
    /\ \E base \in {gor[g].seen, ws.Wallets} :
          ws' = [ws EXCEPT !.Wallets =
                    [a \in DOMAIN base \cup {gor[g].address} |->
                        IF a = gor[g].address
                        THEN InitWallet(gor[g].key)
                        ELSE base[a]]]
    /\ gor' = [gor EXCEPT ![g].pc = "done"]
    /\ wret' = WalletReturn("CreateWallet", <<>>, gor[g].address, Nil)
    /\ UNCHANGED <<running, file>>

\* SaveToFile, lines 93-99: the encoder ranges over the map
GoEncode(g) ==
    /\ running
    /\ gor[g].pc = "idle"
    /\ \/ /\ gor' = [gor EXCEPT ![g] =
                        [pc |-> "encoded", op |-> "SaveToFile", key |-> 0,
                         address |-> <<>>, seen |-> ws.Wallets]]
          /\ UNCHANGED <<running, ws, file, wret>>
       \/ /\ Writing(g) # {}
          /\ Throw(g, "SaveToFile", ErrMapIteration)

\* SaveToFile, lines 101-102: the encoded wallets are written
GoWriteFile(g) ==
    /\ running
    /\ gor[g].pc = "encoded"
    /\ \E order \in Orders(DOMAIN gor[g].seen) :
          file' = WriteFile(file, GobEncode(gor[g].seen, order))
    /\ gor' = [gor EXCEPT ![g].pc = "done"]
    /\ wret' = WalletReturn("SaveToFile", <<>>, <<>>, Nil)
    /\ UNCHANGED <<running, ws>>

\* InitWallets has returned an empty collection; no goroutine has called yet
RaceInit ==
    /\ running = TRUE
    /\ handle = "unopened"
    /\ store = EmptyStore
    /\ pc = Idle
    /\ blk = NoBlocks
    /\ txn = NoTxns
    /\ ret = NoCall
    /\ call = NoArgs
    /\ res = NoRes
    /\ ws = [made |-> TRUE, Wallets |-> EmptyWallets]
    /\ file = NoFile
    /\ wret = WalletReturn("InitWallets", <<>>, EmptyWallets, ErrNotExist)
    /\ gor = NoGoroutines

RaceNext ==
    \/ \E g \in Goroutines : GoInitWallet(g) /\ UNCHANGED chainvars
    \/ \E g \in Goroutines : GoAssignBegin(g) /\ UNCHANGED chainvars
    \/ \E g \in Goroutines : GoAssignEnd(g) /\ UNCHANGED chainvars
    \/ \E g \in Goroutines : GoEncode(g) /\ UNCHANGED chainvars
    \/ \E g \in Goroutines : GoWriteFile(g) /\ UNCHANGED chainvars

\* one call of each goroutine on the shared collection
RaceSpec == RaceInit /\ [][RaceNext]_vars

\* C19: calls of CreateWallet and SaveToFile that run at once on one
\* collection behave as calls that exclude each other: the runtime never ends
\* the process for a concurrent access to the map, and every address a
\* CreateWallet has returned is in the collection.
C19_MutuallyExclusive ==
    /\ wret.kind # "fatal"
    /\ \A g \in Goroutines :
          (gor[g].pc = "done" /\ gor[g].op = "CreateWallet") =>
             gor[g].address \in DOMAIN ws.Wallets

====
